---- MODULE Spec2Model ----
(***************************************************************************)
(* Verification model of the stream payment-protocol SDK core:              *)
(*   - decodeStream over TokenStreamDataLayout        (utils)               *)
(*   - getBN / getNumberFromBN                        (utils)               *)
(*   - formatStringToBytesArray                       (sdk)                 *)
(*   - the program address search of Stream.create    (sdk)                 *)
(*   - Stream.get with its account scans              (sdk)                 *)
(* Every operation is a pure function; the state is one call: which         *)
(* operation (op), its argument (arg), whether it has run (pc) and what it  *)
(* returned or threw (ret = [err |-> BOOLEAN, val |-> ...]).  The loop of   *)
(* formatStringToBytesArray runs one callback invocation per step, with its *)
(* position and accumulator in local.                                       *)
(*   A JS string is the sequence of its UTF-16 code units.                  *)
(*                                                                          *)
(* Number representations.                                                  *)
(*   BN (arbitrary precision, non-negative): sequence of limbs in base      *)
(*     10^4 (four decimal digits each), most significant first, no leading  *)
(*     zero limb; zero is <<>>.  18446744073709551615 is                    *)
(*     <<1844, 6744, 737, 955, 1615>>.                                      *)
(*   JS number (non-negative): [digits |-> BN, frac |-> k], the value       *)
(*     digits / 10^frac, with digits not divisible by 10 when frac > 0.     *)
(*     Arithmetic on them is exact decimal arithmetic (the rounding of      *)
(*     IEEE-754 doubles is not modelled).                                   *)
(***************************************************************************)
EXTENDS Integers, Sequences, FiniteSets, TLC

VARIABLE op    \* the operation called
VARIABLE arg   \* its argument
VARIABLE ret   \* what it returned or threw
VARIABLE pc    \* "call" before it ran, "done" after, or a position inside it
VARIABLE local \* the local variables of the running operation

vars == <<op, arg, ret, pc, local>>

Ok(v) == [err |-> FALSE, val |-> v]
Err(e) == [err |-> TRUE, val |-> e]

Min(a, b) == IF a < b THEN a ELSE b
Max(a, b) == IF a > b THEN a ELSE b

Zeros(n) == [i \in 1..n |-> 0]

(***************************************************************************)
(* BN arithmetic                                                            *)
(***************************************************************************)
Base == 10000

RECURSIVE DigitsOf(_)
DigitsOf(n) == IF n = 0 THEN <<>> ELSE DigitsOf(n \div Base) \o <<n % Base>>

Front(s) == SubSeq(s, 1, Len(s) - 1)
Last(s) == s[Len(s)]

RECURSIVE StripZeros(_)
StripZeros(a) == IF a # <<>> /\ Head(a) = 0 THEN StripZeros(Tail(a)) ELSE a

\* a * k + c for a BN a and naturals k, c <= Base
RECURSIVE MulAddRaw(_, _, _)
MulAddRaw(a, k, c) ==
  IF a = <<>> THEN DigitsOf(c)
  ELSE LET t == Last(a) * k + c
       IN MulAddRaw(Front(a), k, t \div Base) \o <<t % Base>>

MulAdd(a, k, c) == StripZeros(MulAddRaw(a, k, c))

RECURSIVE AddRaw(_, _, _)
AddRaw(a, b, c) ==
  IF a = <<>> /\ b = <<>> THEN DigitsOf(c)
  ELSE LET da == IF a = <<>> THEN 0 ELSE Last(a)
           db == IF b = <<>> THEN 0 ELSE Last(b)
           t == da + db + c
       IN AddRaw(IF a = <<>> THEN a ELSE Front(a),
                 IF b = <<>> THEN b ELSE Front(b), t \div Base) \o <<t % Base>>

BNAdd(a, b) == StripZeros(AddRaw(a, b, 0))

RECURSIVE BNMul(_, _)
BNMul(a, b) ==
  IF b = <<>> THEN <<>>
  ELSE BNAdd(MulAdd(BNMul(a, Front(b)), Base, 0), MulAdd(a, Last(b), 0))

\* quotient of a by a natural k <= Base, with r < k carried in from the left
RECURSIVE DivSmallRaw(_, _, _)
DivSmallRaw(a, k, r) ==
  IF a = <<>> THEN <<>>
  ELSE LET cur == r * Base + Head(a)
       IN <<cur \div k>> \o DivSmallRaw(Tail(a), k, cur % k)

DivSmall(a, k) == StripZeros(DivSmallRaw(a, k, 0))

\* -1, 0, 1 as a < b, a = b, a > b
RECURSIVE LexCmp(_, _)
LexCmp(a, b) ==
  IF a = <<>> THEN 0
  ELSE IF Head(a) < Head(b) THEN -1
  ELSE IF Head(a) > Head(b) THEN 1
  ELSE LexCmp(Tail(a), Tail(b))

BNCmp(a, b) ==
  IF Len(a) < Len(b) THEN -1
  ELSE IF Len(a) > Len(b) THEN 1
  ELSE LexCmp(a, b)

BNGt(a, b) == BNCmp(a, b) = 1

\* new BN(bytes, "le") / new BN(bytes): the bytes as a base-256 numeral
RECURSIVE BNFromBytesLE(_)
BNFromBytesLE(b) ==
  IF b = <<>> THEN <<>> ELSE MulAdd(BNFromBytesLE(Tail(b)), 256, Head(b))

RECURSIVE BNFromBytesBE(_)
BNFromBytesBE(b) ==
  IF b = <<>> THEN <<>> ELSE MulAdd(BNFromBytesBE(Front(b)), 256, Last(b))

LE == "le"

\* the endianness argument ignored (bytes always read big-endian)
BNFromBytes_IgnoreEndian(b, endian) == BNFromBytesBE(b)

BNFromBytes(b, endian) ==
  IF endian = "le" THEN BNFromBytesLE(b) ELSE BNFromBytesBE(b)

(***************************************************************************)
(* Record layout and decodeStream                                           *)
(***************************************************************************)
Blob(n, p) == [kind |-> "blob", span |-> n, property |-> p]
U8(p) == [kind |-> "u8", span |-> 1, property |-> p]

\* the layout with the one-byte version field left out
TokenStreamDataLayout_NoVersion == <<
  Blob(8, "magic"),
  Blob(8, "created_at"),
  Blob(8, "withdrawn_amount"),
  Blob(8, "canceled_at"),
  Blob(8, "end_time"),
  Blob(8, "last_withdrawn_at"),
  Blob(32, "sender"),
  Blob(32, "sender_tokens"),
  Blob(32, "recipient"),
  Blob(32, "recipient_tokens"),
  Blob(32, "mint"),
  Blob(32, "escrow_tokens"),
  Blob(32, "streamdao_treasury"),
  Blob(32, "streamdao_treasury_tokens"),
  Blob(8, "streamdao_fee_total"),
  Blob(8, "streamdao_fee_withdrawn"),
  Blob(4, "streamdao_fee_percent"),
  Blob(32, "partner"),
  Blob(32, "partner_tokens"),
  Blob(8, "partner_fee_total"),
  Blob(8, "partner_fee_withdrawn"),
  Blob(4, "partner_fee_percent"),
  Blob(8, "start_time"),
  Blob(8, "net_deposited_amount"),
  Blob(8, "period"),
  Blob(8, "amount_per_period"),
  Blob(8, "cliff"),
  Blob(8, "cliff_amount"),
  U8("cancelable_by_sender"),
  U8("cancelable_by_recipient"),
  U8("automatic_withdrawal"),
  U8("transferable_by_sender"),
  U8("transferable_by_recipient"),
  U8("can_topup"),
  Blob(64, "stream_name"),
  Blob(8, "withdraw_frequency"),
  Blob(1, "version") >>

TokenStreamDataLayout == <<
  Blob(8, "magic"),
  Blob(1, "version"),
  Blob(8, "created_at"),
  Blob(8, "withdrawn_amount"),
  Blob(8, "canceled_at"),
  Blob(8, "end_time"),
  Blob(8, "last_withdrawn_at"),
  Blob(32, "sender"),
  Blob(32, "sender_tokens"),
  Blob(32, "recipient"),
  Blob(32, "recipient_tokens"),
  Blob(32, "mint"),
  Blob(32, "escrow_tokens"),
  Blob(32, "streamdao_treasury"),
  Blob(32, "streamdao_treasury_tokens"),
  Blob(8, "streamdao_fee_total"),
  Blob(8, "streamdao_fee_withdrawn"),
  Blob(4, "streamdao_fee_percent"),
  Blob(32, "partner"),
  Blob(32, "partner_tokens"),
  Blob(8, "partner_fee_total"),
  Blob(8, "partner_fee_withdrawn"),
  Blob(4, "partner_fee_percent"),
  Blob(8, "start_time"),
  Blob(8, "net_deposited_amount"),
  Blob(8, "period"),
  Blob(8, "amount_per_period"),
  Blob(8, "cliff"),
  Blob(8, "cliff_amount"),
  U8("cancelable_by_sender"),
  U8("cancelable_by_recipient"),
  U8("automatic_withdrawal"),
  U8("transferable_by_sender"),
  U8("transferable_by_recipient"),
  U8("can_topup"),
  Blob(64, "stream_name"),
  Blob(8, "withdraw_frequency") >>

STREAM_STRUCT_OFFSET_SENDER == 49
STREAM_STRUCT_OFFSET_RECIPIENT == 113

\* Offset at which the struct decoder reads field number i (1-based):
\* the spans of the fields before it, added up as the decoder walks them.
RECURSIVE FieldOffset(_, _)
FieldOffset(layout, i) ==
  IF i = 1 THEN 0 ELSE FieldOffset(layout, i - 1) + layout[i - 1].span

LayoutSpan(layout) == FieldOffset(layout, Len(layout)) + layout[Len(layout)].span

FieldIndex(layout, p) == CHOOSE i \in 1..Len(layout) : layout[i].property = p

\* Buffer.slice(start, end): indices are clamped to the buffer, never an error
Slice(b, start, end) == SubSeq(b, Min(start, Len(b)) + 1, Min(end, Len(b)))

\* Blob.decode is b.slice(offset, offset + span); UInt.decode reads one byte
\* and throws a RangeError when the offset is outside the buffer.
FieldThrows(layout, i, b) ==
  layout[i].kind = "u8" /\ FieldOffset(layout, i) >= Len(b)

FieldDecode(layout, i, b) ==
  IF layout[i].kind = "blob"
  THEN Slice(b, FieldOffset(layout, i), FieldOffset(layout, i) + layout[i].span)
  ELSE b[FieldOffset(layout, i) + 1]

StructDecode(layout, b) ==
  IF \E i \in 1..Len(layout) : FieldThrows(layout, i, b)
  THEN Err("RangeError")
  ELSE Ok([p \in {layout[i].property : i \in 1..Len(layout)} |->
             FieldDecode(layout, FieldIndex(layout, p), b)])

\* new PublicKey(bytes): the bytes as a big-endian number of at most 32 bytes,
\* kept as its 32-byte big-endian form
PublicKeyThrows(b) == Len(b) > 32
PublicKey(b) == Zeros(32 - Len(b)) \o b

\* a flag test that only accepts the byte 1
Boolean_OnlyOne(x) == x = 1

\* Boolean(x) of a number
Boolean(x) == x # 0

decodeStream(buf) ==
  LET dec == StructDecode(TokenStreamDataLayout, buf)
      raw == dec.val
  IN IF dec.err THEN dec
     ELSE IF \E p \in {"sender", "sender_tokens", "recipient", "recipient_tokens",
                       "mint", "escrow_tokens", "streamdao_treasury",
                       "streamdao_treasury_tokens", "partner", "partner_tokens"} :
                PublicKeyThrows(raw[p])
     THEN Err("Invalid public key input")
     ELSE Ok([
       magic |-> BNFromBytes(raw["magic"], LE),
       version |-> BNFromBytes(raw["version"], LE),
       createdAt |-> BNFromBytes(raw["created_at"], LE),
       withdrawnAmount |-> BNFromBytes(raw["withdrawn_amount"], LE),
       canceledAt |-> BNFromBytes(raw["canceled_at"], LE),
       end |-> BNFromBytes(raw["end_time"], LE),
       lastWithdrawnAt |-> BNFromBytes(raw["last_withdrawn_at"], LE),
       sender |-> PublicKey(raw["sender"]),
       senderTokens |-> PublicKey(raw["sender_tokens"]),
       recipient |-> PublicKey(raw["recipient"]),
       recipientTokens |-> PublicKey(raw["recipient_tokens"]),
       mint |-> PublicKey(raw["mint"]),
       escrowTokens |-> PublicKey(raw["escrow_tokens"]),
       streamdaoTreasury |-> PublicKey(raw["streamdao_treasury"]),
       streamdaoTreasuryTokens |-> PublicKey(raw["streamdao_treasury_tokens"]),
       streamdaoFeeTotal |-> BNFromBytes(raw["streamdao_fee_total"], LE),
       streamdaoFeeWithdrawn |-> BNFromBytes(raw["streamdao_fee_withdrawn"], LE),
       streamdaoFeePercent |-> BNFromBytes(raw["streamdao_fee_percent"], LE),
       partnerFeeTotal |-> BNFromBytes(raw["partner_fee_total"], LE),
       partnerFeeWithdrawn |-> BNFromBytes(raw["partner_fee_withdrawn"], LE),
       partnerFeePercent |-> BNFromBytes(raw["partner_fee_percent"], LE),
       partner |-> PublicKey(raw["partner"]),
       partnerTokens |-> PublicKey(raw["partner_tokens"]),
       start |-> BNFromBytes(raw["start_time"], LE),
       depositedAmount |-> BNFromBytes(raw["net_deposited_amount"], LE),
       period |-> BNFromBytes(raw["period"], LE),
       amountPerPeriod |-> BNFromBytes(raw["amount_per_period"], LE),
       cliff |-> BNFromBytes(raw["cliff"], LE),
       cliffAmount |-> BNFromBytes(raw["cliff_amount"], LE),
       cancelableBySender |-> Boolean(raw["cancelable_by_sender"]),
       cancelableByRecipient |-> Boolean(raw["cancelable_by_recipient"]),
       automaticWithdrawal |-> Boolean(raw["automatic_withdrawal"]),
       transferableBySender |-> Boolean(raw["transferable_by_sender"]),
       transferableByRecipient |-> Boolean(raw["transferable_by_recipient"]),
       canTopup |-> Boolean(raw["can_topup"]),
       \* the text is kept as the bytes handed to the UTF-8 decoder
       name |-> raw["stream_name"],
       withdrawalFrequency |-> BNFromBytes(raw["withdraw_frequency"], LE) ])

(***************************************************************************)
(* JS numbers and getBN / getNumberFromBN                                   *)
(***************************************************************************)
\* 2^n
RECURSIVE Pow2(_)
Pow2(n) == IF n <= 13 THEN DigitsOf(2 ^ n) ELSE MulAdd(Pow2(n - 13), 2 ^ 13, 0)

\* a - 1 for a > 0
RECURSIVE BNSubOneRaw(_)
BNSubOneRaw(a) ==
  IF Last(a) > 0 THEN Front(a) \o <<Last(a) - 1>>
  ELSE BNSubOneRaw(Front(a)) \o <<Base - 1>>

BNSubOne(a) == StripZeros(BNSubOneRaw(a))

\* 10^d as a BN
Pow10(d) == <<10 ^ (d % 4)>> \o Zeros(d \div 4)

\* a div 10^d
RECURSIVE BNDivPow10(_, _)
BNDivPow10(a, d) ==
  IF a = <<>> \/ d = 0 THEN a
  ELSE IF d >= 4 THEN BNDivPow10(Front(a), d - 4)
  ELSE DivSmall(a, 10 ^ d)

RECURSIVE NumNormalize(_)
NumNormalize(x) ==
  IF x.digits = <<>> THEN [digits |-> <<>>, frac |-> 0]
  ELSE IF x.frac > 0 /\ Last(x.digits) % 10 = 0
       THEN NumNormalize([digits |-> DivSmall(x.digits, 10), frac |-> x.frac - 1])
       ELSE x

NumFromBN(a) == [digits |-> a, frac |-> 0]

\* 2 ** 53 - 1 and 10 ** decimals
MaxSafeNum == NumFromBN(BNSubOne(Pow2(53)))
Pow10Num(d) == NumFromBN(Pow10(d))

\* x * y
NumMul(x, y) ==
  NumNormalize([digits |-> BNMul(x.digits, y.digits), frac |-> x.frac + y.frac])

\* x / 10 ** d
NumDivPow10(x, d) == NumNormalize([digits |-> x.digits, frac |-> x.frac + d])

\* the digits of x at k fractional places, k >= x.frac
NumScaled(x, k) == BNMul(x.digits, Pow10(k - x.frac))

NumCmp(x, y) ==
  BNCmp(NumScaled(x, Max(x.frac, y.frac)), NumScaled(y, Max(x.frac, y.frac)))

NumGt(x, y) == NumCmp(x, y) = 1

\* the integer part of x
NumTrunc(x) == BNDivPow10(x.digits, x.frac)

\* new BN(number): the integer part for a number below 2^53, an assertion
\* failure from 2^53 on
BNFromNumber(x) ==
  IF NumCmp(x, NumFromBN(Pow2(53))) >= 0 THEN Err("Assertion failed")
  ELSE Ok(NumTrunc(x))

\* bn.toNumber(): throws for a value of more than 53 bits
BNToNumber(a) ==
  IF BNCmp(a, Pow2(53)) >= 0
  THEN Err("Number can only safely store up to 53 bits")
  ELSE Ok(NumFromBN(a))

\* number of decimal digits of a BN
DecLen(a) ==
  IF a = <<>> THEN 0
  ELSE 4 * (Len(a) - 1) + (CHOOSE n \in 1..4 : 10 ^ (n - 1) <= Head(a) /\ Head(a) < 10 ^ n)

\* a.div(b), truncating; every divisor the code builds is a power of ten
BNDiv(a, b) == BNDivPow10(a, DecLen(b) - 1)

\* the multiplying branch taken for every value
getBN_AlwaysBN(value, decimals) ==
  LET a == BNFromNumber(value)
      b == BNFromNumber(Pow10Num(decimals))
  IN IF a.err THEN a ELSE IF b.err THEN b ELSE Ok(BNMul(a.val, b.val))

getBN(value, decimals) ==
  IF NumGt(value, NumDivPow10(MaxSafeNum, decimals))
  THEN LET a == BNFromNumber(value)
           b == BNFromNumber(Pow10Num(decimals))
       IN IF a.err THEN a ELSE IF b.err THEN b ELSE Ok(BNMul(a.val, b.val))
  ELSE BNFromNumber(NumMul(value, Pow10Num(decimals)))

getNumberFromBN(value, decimals) ==
  IF BNGt(value, BNFromNumber(MaxSafeNum).val)
  THEN LET b == BNFromNumber(Pow10Num(decimals))
       IN IF b.err THEN b ELSE BNToNumber(BNDiv(value, b.val))
  ELSE Ok(NumDivPow10(BNToNumber(value).val, decimals))

(***************************************************************************)
(* formatStringToBytesArray                                                 *)
(***************************************************************************)
IsHighSurrogate(u) == u \in 55296..56319
IsLowSurrogate(u) == u \in 56320..57343

\* [...text]: the string iterator yields, at code unit position pos, a
\* surrogate pair as one character and any other unit on its own
CharAt(text, pos) ==
  IF /\ IsHighSurrogate(text[pos])
     /\ pos < Len(text)
     /\ IsLowSurrogate(text[pos + 1])
  THEN <<text[pos], text[pos + 1]>>
  ELSE <<text[pos]>>

CodePoint(char) ==
  IF Len(char) = 2
  THEN 65536 + (char[1] - 55296) * 1024 + (char[2] - 56320)
  ELSE IF IsHighSurrogate(char[1]) \/ IsLowSurrogate(char[1])
       THEN 65533   \* a lone surrogate is encoded as U+FFFD
       ELSE char[1]

\* encoder.encode(char)
Utf8Encode(char) ==
  LET cp == CodePoint(char)
  IN IF cp < 128 THEN <<cp>>
     ELSE IF cp < 2048 THEN <<192 + (cp \div 64), 128 + (cp % 64)>>
     ELSE IF cp < 65536
          THEN <<224 + (cp \div 4096), 128 + ((cp \div 64) % 64),
                 128 + (cp % 64)>>
     ELSE <<240 + (cp \div 262144), 128 + ((cp \div 4096) % 64),
            128 + ((cp \div 64) % 64), 128 + (cp % 64)>>

\* the callback without its budget test on the encoded character
EveryCallback_NoBudget(bytes, char) ==
  IF Len(bytes) > 64 THEN [continue |-> FALSE, bytes |-> bytes]
  ELSE LET encoded == Utf8Encode(char)
       IN [continue |-> TRUE,
           bytes |-> bytes \o [i \in 1..Len(encoded) |->
                                 BNFromNumber(NumFromBN(DigitsOf(encoded[i]))).val]]

\* the callback skipping a character that does not fit instead of stopping
EveryCallback_Skip(bytes, char) ==
  IF Len(bytes) > 64 THEN [continue |-> FALSE, bytes |-> bytes]
  ELSE LET encoded == Utf8Encode(char)
       IN IF Len(bytes) + Len(encoded) > 64
          THEN [continue |-> TRUE, bytes |-> bytes]
          ELSE [continue |-> TRUE,
                bytes |-> bytes \o [i \in 1..Len(encoded) |->
                                      BNFromNumber(NumFromBN(DigitsOf(encoded[i]))).val]]

\* the callback of characters.every: continue is its return value, bytes is
\* utf8EncodedBytes after it ran
EveryCallback(bytes, char) ==
  IF Len(bytes) > 64 THEN [continue |-> FALSE, bytes |-> bytes]
  ELSE LET encoded == Utf8Encode(char)
       IN IF Len(bytes) + Len(encoded) > 64
          THEN [continue |-> FALSE, bytes |-> bytes]
          ELSE [continue |-> TRUE,
                bytes |-> bytes \o [i \in 1..Len(encoded) |->
                                      BNFromNumber(NumFromBN(DigitsOf(encoded[i]))).val]]

\* new Array(64 - numberOfBytes).fill(new BN(0)) pushed onto the bytes;
\* new Array of a negative length throws a RangeError
FillAndPush(bytes) ==
  IF 64 - Len(bytes) < 0 THEN Err("RangeError")
  ELSE Ok(bytes \o [i \in 1..(64 - Len(bytes)) |->
                      BNFromNumber(NumFromBN(<<>>)).val])

(***************************************************************************)
(* Stream.create: the program address of the escrow token account           *)
(***************************************************************************)
\* Buffer.from("strm")
StrmSeed == <<115, 116, 114, 109>>

PROGRAM_ID == [
  devnet |-> "7wTGkkRHnZnsgGDL4Ptp89SHWTYKcoaytFQ18ZPeyTg2",
  mainnet |-> "strmRqUCoQUgGUan5YhzUZa6KqdzwX5L6FpUxfmKg5m",
  testnet |-> "7wTGkkRHnZnsgGDL4Ptp89SHWTYKcoaytFQ18ZPeyTg2",
  local |-> "7wTGkkRHnZnsgGDL4Ptp89SHWTYKcoaytFQ18ZPeyTg2" ]

\* createProgramAddress rejects a seed of more than 32 bytes with a TypeError,
\* which findProgramAddress rethrows
SeedTooLong(seeds) == \E i \in 1..Len(seeds) : Len(seeds[i]) > 32

\* the search keeping its nonce after a failed attempt
NextNonce_Stuck(nonce) == nonce

\* the nonce tried after an attempt whose address fell on the curve
NextNonce(nonce) == nonce - 1

(***************************************************************************)
(* formatDecodedStream and Stream.get                                       *)
(***************************************************************************)
\* quotient digits of the base-256 numeral a divided by 58, followed by the
\* remainder; r < 58 is carried in from the left
RECURSIVE DivMod58(_, _)
DivMod58(a, r) ==
  IF a = <<>> THEN <<r>>
  ELSE <<(r * 256 + Head(a)) \div 58>> \o DivMod58(Tail(a), (r * 256 + Head(a)) % 58)

RECURSIVE Base58Digits(_)
Base58Step(qr) == Base58Digits(StripZeros(Front(qr))) \o <<Last(qr)>>
Base58Digits(a) == IF a = <<>> THEN <<>> ELSE Base58Step(DivMod58(a, 0) \o <<>>)

\* bs58.encode: one character "1" for each leading zero byte, then the
\* base-58 digits of the rest; a base-58 text is the sequence of the indices
\* of its characters in the alphabet ("1" is 0)
Base58Encode(bytes) ==
  Zeros(Len(bytes) - Len(StripZeros(bytes))) \o Base58Digits(StripZeros(bytes))

\* publicKey.toBase58()
toBase58(key) == Base58Encode(key) \o <<>>

\* the fields formatDecodedStream converts with toNumber()
NumberFields == {"magic", "version", "createdAt", "canceledAt", "end",
                 "lastWithdrawnAt", "streamdaoFeePercent", "partnerFeePercent",
                 "start", "period", "cliff", "withdrawalFrequency"}

formatDecodedStream(stream) ==
  IF \E f \in NumberFields : BNToNumber(stream[f]).err
  THEN Err("Number can only safely store up to 53 bits")
  ELSE Ok([
    magic |-> BNToNumber(stream.magic).val,
    version |-> BNToNumber(stream.version).val,
    createdAt |-> BNToNumber(stream.createdAt).val,
    withdrawnAmount |-> stream.withdrawnAmount,
    canceledAt |-> BNToNumber(stream.canceledAt).val,
    end |-> BNToNumber(stream.end).val,
    lastWithdrawnAt |-> BNToNumber(stream.lastWithdrawnAt).val,
    sender |-> toBase58(stream.sender),
    senderTokens |-> toBase58(stream.senderTokens),
    recipient |-> toBase58(stream.recipient),
    recipientTokens |-> toBase58(stream.recipientTokens),
    mint |-> toBase58(stream.mint),
    escrowTokens |-> toBase58(stream.escrowTokens),
    streamdaoTreasury |-> toBase58(stream.streamdaoTreasury),
    streamdaoTreasuryTokens |-> toBase58(stream.streamdaoTreasuryTokens),
    streamdaoFeeTotal |-> stream.streamdaoFeeTotal,
    streamdaoFeeWithdrawn |-> stream.streamdaoFeeWithdrawn,
    streamdaoFeePercent |-> BNToNumber(stream.streamdaoFeePercent).val,
    partnerFeeTotal |-> stream.partnerFeeTotal,
    partnerFeeWithdrawn |-> stream.partnerFeeWithdrawn,
    partnerFeePercent |-> BNToNumber(stream.partnerFeePercent).val,
    partner |-> toBase58(stream.partner),
    partnerTokens |-> toBase58(stream.partnerTokens),
    start |-> BNToNumber(stream.start).val,
    depositedAmount |-> stream.depositedAmount,
    period |-> BNToNumber(stream.period).val,
    amountPerPeriod |-> stream.amountPerPeriod,
    cliff |-> BNToNumber(stream.cliff).val,
    cliffAmount |-> stream.cliffAmount,
    cancelableBySender |-> stream.cancelableBySender,
    cancelableByRecipient |-> stream.cancelableByRecipient,
    automaticWithdrawal |-> stream.automaticWithdrawal,
    transferableBySender |-> stream.transferableBySender,
    transferableByRecipient |-> stream.transferableByRecipient,
    canTopup |-> stream.canTopup,
    name |-> stream.name,
    withdrawalFrequency |-> BNToNumber(stream.withdrawalFrequency).val ])

\* the request getProgramAccounts sends: the program of the cluster and one
\* memcmp filter comparing the account data at offset with the wallet's key
getProgramAccounts(wallet, offset, cluster) ==
  [programId |-> PROGRAM_ID[cluster],
   filters |-> << [memcmp |-> [offset |-> offset, bytes |-> toBase58(wallet)]] >>]

\* the node's memcmp test: the account data at the offset equals the bytes
\* the base-58 text stands for (here always the text of a 32-byte key)
MemcmpMatch(data, memcmp) ==
  toBase58(Slice(data, memcmp.offset, memcmp.offset + 32)) = memcmp.bytes

\* the accounts of the ledger that pass every filter of the request
Matching(ledger, request) ==
  {a \in ledger : \A i \in 1..Len(request.filters) :
                    MemcmpMatch(a.data, request.filters[i].memcmp)}

\* the node returns the matching accounts in an order of its own
Orderings(S) ==
  {s \in [1..Cardinality(S) -> S] :
     \A i, j \in 1..Cardinality(S) : s[i] = s[j] => i = j}

\* the offsets of the two directions exchanged
ScanOffset_Swapped(direction) ==
  IF direction = "outgoing"
  THEN STREAM_STRUCT_OFFSET_RECIPIENT
  ELSE STREAM_STRUCT_OFFSET_SENDER

\* direction === "outgoing" ? SENDER : RECIPIENT
ScanOffset(direction) ==
  IF direction = "outgoing"
  THEN STREAM_STRUCT_OFFSET_SENDER
  ELSE STREAM_STRUCT_OFFSET_RECIPIENT

\* an object is the sequence of its <<key, value>> entries in insertion
\* order (no key here is an array index)
KeyIndex(streams, key) == {i \in 1..Len(streams) : streams[i][1] = key}

\* every account appended, whether or not its key is already there
Put_NoDedup(streams, key, value) == Append(streams, <<key, value>>)

\* {...streams, [key]: value}: a key already present keeps its place and takes
\* the new value, a new key goes last
Put(streams, key, value) ==
  IF KeyIndex(streams, key) = {}
  THEN Append(streams, <<key, value>>)
  ELSE [streams EXCEPT ![CHOOSE i \in KeyIndex(streams, key) : TRUE] = <<key, value>>]

\* accounts.forEach: decode, format and store under the account's address;
\* an exception of decodeStream or formatDecodedStream leaves the loop
RECURSIVE CollectStreams(_, _)
CollectDecoded(accounts, streams, decoded) ==
  IF decoded.err THEN decoded
  ELSE IF formatDecodedStream(decoded.val).err THEN formatDecodedStream(decoded.val)
  ELSE CollectStreams(Tail(accounts),
         Put(streams, toBase58(Head(accounts).pubkey), formatDecodedStream(decoded.val).val))
CollectStreams(accounts, streams) ==
  IF accounts = <<>> THEN Ok(streams)
  ELSE CollectDecoded(accounts, streams, decodeStream(Head(accounts).data))

\* obj[name] of JavaScript: undefined for a property the object does not have
Prop(obj, name) ==
  IF name \in DOMAIN obj
  THEN [undefined |-> FALSE, val |-> obj[name]]
  ELSE [undefined |-> TRUE, val |-> <<>>]

\* stream2.startTime - stream1.startTime: NaN when an operand is undefined,
\* otherwise the sign of the difference
Comparator(stream1, stream2) ==
  IF Prop(stream2, "startTime").undefined \/ Prop(stream1, "startTime").undefined
  THEN [nan |-> TRUE, sign |-> 0]
  ELSE [nan |-> FALSE,
        sign |-> NumCmp(Prop(stream2, "startTime").val, Prop(stream1, "startTime").val)]

\* Array.prototype.sort reads a NaN result of the comparator as 0
SortCompare(a, b) == IF Comparator(a[2], b[2]).nan THEN 0 ELSE Comparator(a[2], b[2]).sign

\* the sort is stable: x goes behind the last entry that is not to follow it
InsertSorted(sorted, x) ==
  LET k == CHOOSE k \in 0..Len(sorted) :
             /\ \A i \in (k + 1)..Len(sorted) : SortCompare(sorted[i], x) > 0
             /\ k = 0 \/ SortCompare(sorted[k], x) <= 0
  IN SubSeq(sorted, 1, k) \o <<x>> \o SubSeq(sorted, k + 1, Len(sorted))

RECURSIVE Sort(_)
Sort(entries) ==
  IF entries = <<>> THEN <<>> ELSE InsertSorted(Sort(Front(entries)), Last(entries))

HasTopup(entry) == entry[2].canTopup
HasNoTopup(entry) == ~entry[2].canTopup

\* the return of Stream.get for the sorted entries
TypeFilter(sortedStreams, type) ==
  IF type = "all" THEN sortedStreams
  ELSE IF type = "stream" THEN SelectSeq(sortedStreams, HasTopup)
  ELSE SelectSeq(sortedStreams, HasNoTopup)

\* Stream.get after the scans
GetReturnSorted(streams, type) ==
  IF streams.err THEN streams ELSE Ok(TypeFilter(Sort(streams.val), type))
GetReturn(accounts, type) == GetReturnSorted(CollectStreams(accounts, <<>>), type)

(***************************************************************************)
(* Inputs                                                                   *)
(***************************************************************************)
\* Buffers: length len, byte i (0-based) is (stride * i + fill) mod 256
MaxExtra == 1
MaxStride == 2
FillBytes == {0, 1, 2, 55, 255}
BufLens == {0, 8, 49, 113, 457, 458, 462, 463, 464, 526, 527, 534}
             \cup (LayoutSpan(TokenStreamDataLayout)..
                     (LayoutSpan(TokenStreamDataLayout) + MaxExtra))

MkBuf(len, stride, fill) == [i \in 1..len |-> (stride * (i - 1) + fill) % 256]

BufInputs ==
  {MkBuf(len, s, f) : len \in BufLens, s \in 0..MaxStride, f \in FillBytes}

\* Amounts: a few magnitudes around the 2^53 boundary and the 64-bit maximum,
\* each shifted by up to MaxFrac fractional digits; decimals 0..MaxDecimals
MaxFrac == 2
MaxDecimals == 16
Magnitudes == {
  <<>>, <<1>>, <<5>>, <<15>>, <<435>>,
  <<1000, 0>>,                          \* 10000000
  <<150, 0>>,                           \* 1500000
  <<900, 7199, 2547, 4099>>,            \* (2^53 - 1) div 10
  <<900, 7199, 2547, 4100>>,
  <<9007, 1992, 5474, 991>>,            \* 2^53 - 1
  <<9007, 1992, 5474, 992>>,            \* 2^53
  <<9007, 1992, 5474, 993>>,
  <<9, 71, 9925, 4740, 9915>>,          \* 10 * (2^53 - 1) + 5
  <<1844, 6744, 737, 955, 1615>> }      \* 2^64 - 1

NumberInputs ==
  {NumNormalize([digits |-> m, frac |-> f]) : m \in Magnitudes, f \in 0..MaxFrac}

GetBNInputs ==
  {[value |-> v, decimals |-> d] : v \in NumberInputs, d \in 0..MaxDecimals}

GetNumberFromBNInputs ==
  {[value |-> m, decimals |-> d] : m \in Magnitudes, d \in 0..MaxDecimals}

\* Texts: a run of letters "a" (short, or within RunSpread of MaxRun), then
\* one of Mids, then one of Tails
MaxRun == 66
RunSpread == 12
RunLens == (0..2) \cup ((MaxRun - RunSpread)..MaxRun)
Mids == {
  <<>>,
  <<233>>,              \* U+00E9, two bytes
  <<8364>>,             \* U+20AC, three bytes
  <<55357, 56832>>,     \* U+1F600 as a surrogate pair, four bytes
  <<55357>> }           \* a lone high surrogate
Tails == {
  <<>>,
  <<98>>,
  <<233, 98>>,
  <<55357, 56832, 8364, 233, 98>> }

TextInputs ==
  {[i \in 1..k |-> 97] \o m \o t : k \in RunLens, m \in Mids, t \in Tails}

\* Fresh metadata keys (Keypair.generate()): 32 bytes, here 30 zero bytes and
\* two more, the first of them up to MaxKey
MaxKey == 3
MetadataKeys == {Zeros(30) \o <<a, b>> : a \in 0..MaxKey, b \in {1, 255}}

FindProgramAddressInputs ==
  {[seeds |-> <<StrmSeed, k>>, programId |-> PROGRAM_ID[c]] :
     k \in MetadataKeys, c \in DOMAIN PROGRAM_ID}

\* Stream.get: the wallet asked for and one other wallet; a ledger of up to
\* MaxAccounts stream accounts as the program writes them, each sent by one of
\* the two wallets to one of the two, with or without top-up, the start times
\* 200 and 100 alternating
MaxAccounts == 2
WalletKey(n) == Zeros(30) \o <<n, 1>>
AccountKey(k) == Zeros(30) \o <<k, 2>>
StartOf(k) == IF k % 2 = 1 THEN 200 ELSE 100

StreamRecord(sender, recipient, start, canTopup) ==
  [i \in 1..LayoutSpan(TokenStreamDataLayout) |->
     IF i - 1 \in STREAM_STRUCT_OFFSET_SENDER..(STREAM_STRUCT_OFFSET_SENDER + 31)
     THEN sender[i - STREAM_STRUCT_OFFSET_SENDER]
     ELSE IF i - 1 \in STREAM_STRUCT_OFFSET_RECIPIENT..(STREAM_STRUCT_OFFSET_RECIPIENT + 31)
     THEN recipient[i - STREAM_STRUCT_OFFSET_RECIPIENT]
     ELSE IF i - 1 = FieldOffset(TokenStreamDataLayout, FieldIndex(TokenStreamDataLayout, "start_time"))
     THEN start
     ELSE IF i - 1 = FieldOffset(TokenStreamDataLayout, FieldIndex(TokenStreamDataLayout, "can_topup"))
     THEN (IF canTopup THEN 1 ELSE 0)
     ELSE 0]

StreamAccounts(k) ==
  {[pubkey |-> AccountKey(k),
    data |-> StreamRecord(WalletKey(s), WalletKey(r), StartOf(k), t)] :
     s \in 1..2, r \in 1..2, t \in BOOLEAN}

RECURSIVE Ledgers(_)
Ledgers(n) ==
  IF n = 0 THEN {{}}
  ELSE {l \cup {a} : l \in Ledgers(n - 1), a \in StreamAccounts(n)}

GetInputs ==
  {[connection |-> l, wallet |-> WalletKey(1), type |-> t, direction |-> d,
    cluster |-> "mainnet"] :
     l \in UNION {Ledgers(n) : n \in 0..MaxAccounts},
     t \in {"stream", "vesting", "all"},
     d \in {"incoming", "outgoing", "all"}}

(***************************************************************************)
(* Specification: a call is made with an input (Init) and the operation     *)
(* called runs to its return or throw.                                      *)
(***************************************************************************)
Init ==
  /\ pc = "call"
  /\ ret = Ok(<<>>)
  /\ local = <<>>
  /\ \/ op = "decodeStream" /\ arg \in BufInputs
     \/ op = "getBN" /\ arg \in GetBNInputs
     \/ op = "getNumberFromBN" /\ arg \in GetNumberFromBNInputs
     \/ op = "formatStringToBytesArray" /\ arg \in TextInputs
     \/ op = "findProgramAddress" /\ arg \in FindProgramAddressInputs
     \/ op = "get" /\ arg \in GetInputs

DecodeStream ==
  /\ pc = "call" /\ op = "decodeStream"
  /\ ret' = decodeStream(arg)
  /\ pc' = "done"
  /\ UNCHANGED <<op, arg, local>>

GetBN ==
  /\ pc = "call" /\ op = "getBN"
  /\ ret' = getBN(arg.value, arg.decimals)
  /\ pc' = "done"
  /\ UNCHANGED <<op, arg, local>>

GetNumberFromBN ==
  /\ pc = "call" /\ op = "getNumberFromBN"
  /\ ret' = getNumberFromBN(arg.value, arg.decimals)
  /\ pc' = "done"
  /\ UNCHANGED <<op, arg, local>>

\* the amount getBN returned is converted back with the same decimals
RoundTrip ==
  /\ pc = "done" /\ op = "getBN" /\ ~ret.err
  /\ op' = "roundTrip"
  /\ ret' = getNumberFromBN(ret.val, arg.decimals)
  /\ UNCHANGED <<arg, pc, local>>

\* formatStringToBytesArray up to the first invocation of the callback
FormatStringToBytesArray ==
  /\ pc = "call" /\ op = "formatStringToBytesArray"
  /\ local' = [pos |-> 1, utf8EncodedBytes |-> <<>>]
  /\ pc' = "every"
  /\ UNCHANGED <<op, arg, ret>>

\* one invocation of the callback of characters.every, on the character at
\* pos; every stops at the first invocation that returns false
Every ==
  /\ pc = "every" /\ local.pos <= Len(arg)
  /\ LET char == CharAt(arg, local.pos)
         r == EveryCallback(local.utf8EncodedBytes, char)
     IN /\ local' = [pos |-> local.pos + Len(char), utf8EncodedBytes |-> r.bytes]
        /\ pc' = IF r.continue THEN "every" ELSE "fill"
  /\ UNCHANGED <<op, arg, ret>>

\* after every: the zero fill and the return
Fill ==
  /\ pc = "fill" \/ (pc = "every" /\ local.pos > Len(arg))
  /\ ret' = FillAndPush(local.utf8EncodedBytes)
  /\ pc' = "done"
  /\ UNCHANGED <<op, arg, local>>

\* findProgramAddress up to its loop: the nonce starts at 255; attempts
\* counts the calls of createProgramAddress
FindProgramAddress ==
  /\ pc = "call" /\ op = "findProgramAddress"
  /\ local' = [nonce |-> 255, attempts |-> 0]
  /\ pc' = "while"
  /\ UNCHANGED <<op, arg, ret>>

\* one turn of while (nonce != 0): createProgramAddress hashes the seeds, the
\* nonce and the program id; the hash is or is not a point of the curve
TryNonce ==
  /\ pc = "while" /\ local.nonce # 0
  /\ local.attempts <= 256
  /\ LET seedsWithNonce == arg.seeds \o << <<local.nonce>> >>
     IN IF SeedTooLong(seedsWithNonce)
        THEN /\ ret' = Err("TypeError")
             /\ pc' = "done"
             /\ UNCHANGED local
        ELSE \E onCurve \in BOOLEAN :
               IF onCurve
               THEN /\ local' = [nonce |-> NextNonce(local.nonce),
                                 attempts |-> local.attempts + 1]
                    /\ UNCHANGED <<ret, pc>>
               ELSE /\ local' = [local EXCEPT !.attempts = @ + 1]
                    /\ ret' = Ok([address |-> [seeds |-> seedsWithNonce,
                                               programId |-> arg.programId,
                                               onCurve |-> onCurve],
                                  nonce |-> local.nonce])
                    /\ pc' = "done"
  /\ UNCHANGED <<op, arg>>

\* the loop left with nonce = 0
NoViableNonce ==
  /\ pc = "while" /\ local.nonce = 0
  /\ ret' = Err("Unable to find a viable program address nonce")
  /\ pc' = "done"
  /\ UNCHANGED <<op, arg, local>>

PdaNext == FindProgramAddress \/ TryNonce \/ NoViableNonce

\* Stream.get up to the return of its first scan: the sender scan for the
\* direction "all", else the scan of the direction
Get ==
  /\ pc = "call" /\ op = "get"
  /\ \E response \in Orderings(Matching(arg.connection,
          getProgramAccounts(arg.wallet,
            IF arg.direction = "all" THEN STREAM_STRUCT_OFFSET_SENDER
            ELSE ScanOffset(arg.direction), arg.cluster))) :
       local' = [requests |-> << getProgramAccounts(arg.wallet,
                                   IF arg.direction = "all"
                                   THEN STREAM_STRUCT_OFFSET_SENDER
                                   ELSE ScanOffset(arg.direction), arg.cluster) >>,
                 accounts |-> response]
  /\ pc' = IF arg.direction = "all" THEN "incoming" ELSE "collect"
  /\ UNCHANGED <<op, arg, ret>>

\* the second scan of the direction "all"
GetIncoming ==
  /\ pc = "incoming"
  /\ \E response \in Orderings(Matching(arg.connection,
          getProgramAccounts(arg.wallet, STREAM_STRUCT_OFFSET_RECIPIENT, arg.cluster))) :
       local' = [requests |-> Append(local.requests,
                   getProgramAccounts(arg.wallet, STREAM_STRUCT_OFFSET_RECIPIENT,
                                      arg.cluster)),
                 accounts |-> local.accounts \o response]
  /\ pc' = "collect"
  /\ UNCHANGED <<op, arg, ret>>

\* decode, collect, sort, filter and return
GetCollect ==
  /\ pc = "collect"
  /\ ret' = GetReturn(local.accounts, arg.type)
  /\ pc' = "done"
  /\ UNCHANGED <<op, arg, local>>

GetNext == Get \/ GetIncoming \/ GetCollect

Next ==
  \/ DecodeStream
  \/ GetBN
  \/ GetNumberFromBN
  \/ RoundTrip
  \/ FormatStringToBytesArray
  \/ Every
  \/ Fill
  \/ FindProgramAddress
  \/ TryNonce
  \/ NoViableNonce
  \/ Get
  \/ GetIncoming
  \/ GetCollect

Spec == Init /\ [][Next]_vars

\* The address search alone; the loop is sequential code that keeps running
PdaInit ==
  /\ pc = "call"
  /\ ret = Ok(<<>>)
  /\ local = <<>>
  /\ op = "findProgramAddress" /\ arg \in FindProgramAddressInputs

PdaSpec == PdaInit /\ [][PdaNext]_vars /\ WF_vars(PdaNext)

\* Stream.get alone
GetInit ==
  /\ pc = "call"
  /\ ret = Ok(<<>>)
  /\ local = <<>>
  /\ op = "get" /\ arg \in GetInputs

GetSpec == GetInit /\ [][GetNext]_vars

(***************************************************************************)
(* Properties of decodeStream                                               *)
(***************************************************************************)
Decoded == pc = "done" /\ op = "decodeStream"

\* C1: the layout's field widths add up to 535 bytes; the sender filter
\* offset 49 and the recipient filter offset 113 are the sums of the widths
\* before those fields; and for every buffer of at least 535 bytes the
\* decoded sender is bytes [49, 81) and the decoded recipient bytes [113, 145).
C1_LayoutAndFilterOffsets ==
  (Decoded /\ Len(arg) >= 535) =>
    /\ LayoutSpan(TokenStreamDataLayout) = 535
    /\ FieldOffset(TokenStreamDataLayout,
                   FieldIndex(TokenStreamDataLayout, "sender"))
         = STREAM_STRUCT_OFFSET_SENDER
    /\ STREAM_STRUCT_OFFSET_SENDER = 49
    /\ FieldOffset(TokenStreamDataLayout,
                   FieldIndex(TokenStreamDataLayout, "recipient"))
         = STREAM_STRUCT_OFFSET_RECIPIENT
    /\ STREAM_STRUCT_OFFSET_RECIPIENT = 113
    /\ ~ret.err
    /\ ret.val.sender = SubSeq(arg, 49 + 1, 81)
    /\ ret.val.recipient = SubSeq(arg, 113 + 1, 145)

C1_Witness ==
  /\ Decoded /\ Len(arg) >= 535 /\ ~ret.err
  /\ ret.val.sender = SubSeq(arg, 50, 81)
  /\ ret.val.recipient = SubSeq(arg, 114, 145)
  /\ ret.val.sender # ret.val.recipient
  /\ ret.val.sender # SubSeq(arg, 49, 80)

\* C2: decodeStream fails for every buffer shorter than 535 bytes.
C2_ShortBufferFails ==
  (Decoded /\ Len(arg) < 535) => ret.err

\* The unsigned little-endian value of the w bytes of b at 0-based offset off:
\* the sum over i of b[off + i] * 256^i.
RECURSIVE Pow256(_)
Pow256(i) == IF i = 0 THEN <<1>> ELSE MulAdd(Pow256(i - 1), 256, 0)

RECURSIVE LEValue(_, _, _)
LEValue(b, off, w) ==
  IF w = 0 THEN <<>>
  ELSE BNAdd(LEValue(b, off, w - 1), MulAdd(Pow256(w - 1), b[off + w], 0))

\* field of the decoded record, byte offset, width
IntegerFields == {
  <<"magic", 0, 8>>, <<"version", 8, 1>>, <<"createdAt", 9, 8>>,
  <<"withdrawnAmount", 17, 8>>, <<"canceledAt", 25, 8>>, <<"end", 33, 8>>,
  <<"lastWithdrawnAt", 41, 8>>,
  <<"streamdaoFeeTotal", 305, 8>>, <<"streamdaoFeeWithdrawn", 313, 8>>,
  <<"streamdaoFeePercent", 321, 4>>,
  <<"partnerFeeTotal", 389, 8>>, <<"partnerFeeWithdrawn", 397, 8>>,
  <<"partnerFeePercent", 405, 4>>,
  <<"start", 409, 8>>, <<"depositedAmount", 417, 8>>, <<"period", 425, 8>>,
  <<"amountPerPeriod", 433, 8>>, <<"cliff", 441, 8>>, <<"cliffAmount", 449, 8>>,
  <<"withdrawalFrequency", 527, 8>> }

\* C3: for every buffer of at least 535 bytes each integer field of the
\* decoded record is the unsigned little-endian value of the bytes at the
\* field's offset and width.
C3_IntegersLittleEndian ==
  (Decoded /\ Len(arg) >= 535) =>
    /\ ~ret.err
    /\ \A f \in IntegerFields : ret.val[f[1]] = LEValue(arg, f[2], f[3])

C3_Witness ==
  /\ Decoded /\ Len(arg) >= 535 /\ ~ret.err
  /\ ret.val.start = LEValue(arg, 409, 8)
  /\ Len(ret.val.start) > 4
  /\ ret.val.start # BNFromBytesBE(SubSeq(arg, 410, 417))
  /\ ret.val.streamdaoFeePercent = LEValue(arg, 321, 4)
  /\ ret.val.streamdaoFeePercent # <<>>

FlagFields == {
  <<"cancelableBySender", 457>>, <<"cancelableByRecipient", 458>>,
  <<"automaticWithdrawal", 459>>, <<"transferableBySender", 460>>,
  <<"transferableByRecipient", 461>>, <<"canTopup", 462>> }

\* C4: each of the six flags decodes to TRUE exactly when its stored byte is
\* nonzero (any of 1..255) and to FALSE exactly when it is 0; the value of a
\* flag byte never makes the decoding of a full record fail.
C4_FlagsNonzeroIsTrue ==
  /\ (Decoded /\ ~ret.err) =>
        \A f \in FlagFields : ret.val[f[1]] = (arg[f[2] + 1] # 0)
  /\ (Decoded /\ Len(arg) >= 535) => ~ret.err

C4_Witness ==
  /\ Decoded /\ Len(arg) >= 535 /\ ~ret.err
  /\ \E f \in FlagFields : arg[f[2] + 1] = 0 /\ ret.val[f[1]] = FALSE
  /\ \E f \in FlagFields : arg[f[2] + 1] \in 2..255 /\ ret.val[f[1]] = TRUE

(***************************************************************************)
(* Properties of getBN / getNumberFromBN                                    *)
(***************************************************************************)
Scaled == NumMul(arg.value, Pow10Num(arg.decimals))

\* C7: getBN returns the integer conversion of value * 10^decimals when that
\* product is at most 2^53 - 1, and trunc(value) * 10^decimals (arbitrary
\* precision) when the product exceeds 2^53 - 1.
C7_GetBNResult ==
  (pc = "done" /\ op = "getBN") =>
    /\ ~ret.err
    /\ ret.val = IF NumCmp(Scaled, MaxSafeNum) <= 0
                 THEN NumTrunc(Scaled)
                 ELSE BNMul(NumTrunc(arg.value), Pow10(arg.decimals))

\* C8: getNumberFromBN returns the truncating quotient value div 10^decimals
\* when value > 2^53 - 1 and value / 10^decimals as a fraction otherwise.
C8_GetNumberFromBNResult ==
  (pc = "done" /\ op = "getNumberFromBN") =>
    /\ ~ret.err
    /\ ret.val = IF BNGt(arg.value, BNSubOne(Pow2(53)))
                 THEN NumFromBN(BNDiv(arg.value, Pow10(arg.decimals)))
                 ELSE NumDivPow10(NumFromBN(arg.value), arg.decimals)

InSafeRange ==
  /\ NumCmp(arg.value, MaxSafeNum) <= 0
  /\ NumCmp(Scaled, MaxSafeNum) <= 0

C10_AmountScalerTotal ==
  (pc = "done" /\ op \in {"getBN", "getNumberFromBN"}) => ~ret.err

(***************************************************************************)
(* Properties of formatStringToBytesArray                                   *)
(***************************************************************************)
Formatted == pc = "done" /\ op = "formatStringToBytesArray"

\* positions of the code units of text that start a character
CharStarts(text) ==
  {j \in 1..Len(text) :
     ~(IsLowSurrogate(text[j]) /\ j > 1 /\ IsHighSurrogate(text[j - 1]))}

\* number of UTF-8 bytes of the character that starts at each position of
\* text, 0 at the second unit of a surrogate pair (a sequence)
EncodedLens(text) ==
  [j \in 1..Len(text) |->
     IF j \in CharStarts(text) THEN Len(Utf8Encode(CharAt(text, j))) ELSE 0]
    \o <<>>

\* number of UTF-8 bytes of the characters that start before p, given the
\* lengths lens of the encoded characters
BytesBefore(lens, p) ==
  Cardinality({jb \in (1..(p - 1)) \X (1..4) : jb[2] <= lens[jb[1]]})

PrefixBytes(text, p) == BytesBefore(EncodedLens(text), p)

\* C5: formatStringToBytesArray never fails and returns exactly 64 byte
\* values, for every text (empty, exactly 64 bytes, longer than 64 bytes).
C5_Always64Bytes ==
  Formatted =>
    /\ ~ret.err
    /\ Len(ret.val) = 64
    /\ \A i \in 1..64 : \E b \in 0..255 : ret.val[i] = DigitsOf(b)

C5_Witness ==
  /\ Formatted /\ ~ret.err /\ Len(ret.val) = 64
  /\ PrefixBytes(arg, Len(arg) + 1) > 64

\* The 64 bytes the claim describes: the UTF-8 bytes of the longest prefix of
\* the characters of text whose encodings total at most 64 bytes, then zeros.
PaddedPrefix(text, starts, lens, pref, cut) ==
  [n \in 1..64 |->
     IF n <= pref[cut]
     THEN LET j == CHOOSE j \in starts :
                     j < cut /\ pref[j] < n /\ n <= pref[j] + lens[j]
          IN DigitsOf(Utf8Encode(CharAt(text, j))[n - pref[j]])
     ELSE <<>>]

\* the last position before which the characters total at most 64 bytes
LongestCut(cuts) == CHOOSE p \in cuts : \A q \in cuts : q <= p

PaddedPrefixOf(text, starts, lens, pref) ==
  PaddedPrefix(text, starts, lens, pref,
               LongestCut({p \in starts \cup {Len(text) + 1} : pref[p] <= 64}))

PrefixTable(text, lens) ==
  [p \in 1..(Len(text) + 1) |-> BytesBefore(lens, p)] \o <<>>

LongestPrefixPaddedWith(text, lens) ==
  PaddedPrefixOf(text, CharStarts(text), lens, PrefixTable(text, lens))

LongestPrefixPadded(text) == LongestPrefixPaddedWith(text, EncodedLens(text))

\* C6: the output is the concatenated UTF-8 encodings of the longest prefix
\* of the text's code points that fits in 64 bytes, followed only by zero
\* bytes; nothing after the first code point that does not fit is appended
\* and no code point is emitted in part.
C6_LongestPrefixThenZeros ==
  Formatted => ret = Ok(LongestPrefixPadded(arg))

\* a multi-byte character straddles byte 64 and a later character would fit
C6_Witness ==
  /\ Formatted /\ ret = Ok(LongestPrefixPadded(arg))
  /\ \E p \in CharStarts(arg) :
        /\ PrefixBytes(arg, p) < 64
        /\ Len(Utf8Encode(CharAt(arg, p))) > 1
        /\ PrefixBytes(arg, p) + Len(Utf8Encode(CharAt(arg, p))) > 64
        /\ ret.val[PrefixBytes(arg, p) + 1] = <<>>
        /\ \E q \in CharStarts(arg) :
              /\ q > p
              /\ PrefixBytes(arg, p) + Len(Utf8Encode(CharAt(arg, q))) <= 64

(***************************************************************************)
(* Properties of the program address search                                 *)
(***************************************************************************)
PdaResultOk ==
  \/ ret = Err("Unable to find a viable program address nonce")
  \/ /\ ~ret.err
     /\ ret.val.nonce \in 1..255
     /\ ~ret.val.address.onCurve
     /\ ret.val.address.seeds = <<StrmSeed, arg.seeds[2], <<ret.val.nonce>> >>
     /\ ret.val.address.programId = arg.programId

\* C11: the address search of create (seeds "strm" and the new record's
\* 32-byte key, under the program id) makes at most 256 attempts and always
\* ends: with an off-curve address and its bump, or with the derivation error.
C11_SearchTerminates ==
  /\ [](pc \in {"while", "done"} => local.attempts <= 256)
  /\ [](pc = "done" => PdaResultOk)
  /\ (pc = "call") ~> (pc = "done")

\* every nonce was tried and the search failed
C11_Witness ==
  /\ op = "findProgramAddress" /\ pc = "done"
  /\ ret = Err("Unable to find a viable program address nonce")
  /\ local.attempts = 255
  /\ arg.seeds[1] = StrmSeed /\ Len(arg.seeds[2]) = 32

(***************************************************************************)
(* Stream.get                                                               *)
(***************************************************************************)
GetDone == pc = "done" /\ op = "get"

\* C12: the entries Stream.get returns are in ascending order of their start
\* times, for every direction and type.
C12_SortedByStartAscending ==
  GetDone /\ ~ret.err =>
    \A i \in 1..(Len(ret.val) - 1) :
      NumCmp(ret.val[i][2].start, ret.val[i + 1][2].start) <= 0

\* the request of one scan of the wallet asked for, written out
ScanOf(offset) ==
  [programId |-> PROGRAM_ID[arg.cluster],
   filters |-> << [memcmp |-> [offset |-> offset,
                               bytes |-> Base58Encode(arg.wallet)]] >>]

\* C13: Stream.get scans the ledger only with exact-match predicates on the
\* wallet's id at offset 49 or 113: one scan at 49 for "outgoing", one scan at
\* 113 for "incoming", two scans, at 49 and at 113, for "all"; no scan has
\* another offset or value.
C13_ScanPredicates ==
  GetDone =>
    /\ arg.direction = "outgoing" => local.requests = <<ScanOf(49)>>
    /\ arg.direction = "incoming" => local.requests = <<ScanOf(113)>>
    /\ arg.direction = "all" =>
         /\ Len(local.requests) = 2
         /\ {local.requests[i] : i \in 1..2} = {ScanOf(49), ScanOf(113)}

\* a call for every direction has returned streams found by its scans
C13_Witness ==
  /\ GetDone /\ ~ret.err /\ arg.direction = "all"
  /\ Len(local.requests) = 2 /\ Len(ret.val) = 2
  /\ \E i \in 1..2 : ret.val[i][2].sender # ret.val[i][2].recipient

\* the addresses of the accounts the scans returned that pass the type filter
PassingKeys ==
  {Base58Encode(local.accounts[i].pubkey) :
     i \in {j \in 1..Len(local.accounts) :
              \/ arg.type = "all"
              \/ arg.type = "stream" /\ local.accounts[j].data[463] # 0
              \/ arg.type = "vesting" /\ local.accounts[j].data[463] = 0}}

\* C14: Stream.get returns each ledger account at most once, also when both
\* scans of the direction "all" returned it, and every account returned by a
\* scan that passes the type filter is in the result.
C14_EachAccountOnce ==
  GetDone /\ ~ret.err =>
    /\ \A i, j \in 1..Len(ret.val) : ret.val[i][1] = ret.val[j][1] => i = j
    /\ {ret.val[i][1] : i \in 1..Len(ret.val)} = PassingKeys

\* both scans of a call for "all" returned the same account, and the result
\* has it once, next to another account
C14_Witness ==
  /\ GetDone /\ ~ret.err /\ arg.direction = "all"
  /\ \E i, j \in 1..Len(local.accounts) :
       i # j /\ local.accounts[i].pubkey = local.accounts[j].pubkey
  /\ Len(local.accounts) = 3 /\ Len(ret.val) = 2
====
